---- MODULE Spec2Model ----
(***************************************************************************)
(* Alpha CRM relay (src/main.py): the JSON store (load_db and its          *)
(* writers), the moderation gate (is_banned, ban_client, unban_client),    *)
(* the ConnectionManager registry and the asyncio handlers that use them.  *)
(*                                                                         *)
(* One action is one run of a coroutine between two suspension points:     *)
(* it resumes after an await, runs the synchronous code that follows and   *)
(* issues the next awaited transport call, whose effect on the peer is     *)
(* part of the action.                                                     *)
(***************************************************************************)
EXTENDS Integers, Sequences, FiniteSets, TLC

\* ---------------------------------------------------------------- bounds
NumIds == 2
NumIps == 1
MaxClients == 2
MaxAdmins == 2
MaxBanCalls == 1
MaxUnbanCalls == 1
MaxSubmits == 2
MaxDamage == 1
MaxFrames == 1
MaxRedirects == 1
\* the admins and submissions of the specifications that also run the
\* sessions, the ban calls and the store going bad
MaxRelayAdmins == 1
\* the sessions of the specification checked for liveness
MaxLiveClients == 1
MaxStoreSubmits == 1

\* closure code of a banned session, src/main.py:263 and :292
BanCloseCode == 4003

Ids == 1..NumIds
Ips == 1..NumIps
\* None (an omitted or empty client_id / ip argument)
None == 0
WS == 1..MaxClients
ADM == 1..MaxAdmins
BanTasks == 1..MaxBanCalls
SubTasks == 1..MaxSubmits
RedirectCalls == 1..MaxRedirects
RelayADM == 1..MaxRelayAdmins
LiveWS == 1..MaxLiveClients
StoreSubTasks == 1..MaxStoreSubmits

Range(s) == {s[i] : i \in 1..Len(s)}
NoDup(s) == \A i, j \in 1..Len(s) : s[i] = s[j] => i = j
IsPrefix(s, t) == Len(s) <= Len(t) /\ \A i \in 1..Len(s) : s[i] = t[i]
\* list.remove(x): drops the first occurrence of x
RemoveFirst(s, x) ==
    LET hits == {i \in 1..Len(s) : s[i] = x}
    IN  IF hits = {} THEN s
        ELSE LET k == CHOOSE i \in hits : \A j \in hits : i <= j
             IN  [i \in 1..(Len(s) - 1) |-> IF i < k THEN s[i] ELSE s[i + 1]]

VARIABLES
    dbFile,      \* database.json: [state, data]
    admins,      \* manager.admins, a list of admin handles
    clients,     \* manager.clients, the dict as a set of <<client_id, ws>> items
    wsPc,        \* position of each websocket_client coroutine
    wsId,        \* its client_id path parameter
    wsIp,        \* its client_ip
    wsIdx,       \* list iterator position of the broadcast it is running
    wsPeer,      \* the remote end of the session transport
    wsRecv,      \* what the session peer has observed, in order
    admPc,       \* position of each websocket_admin coroutine
    admPeer,     \* the remote end of the admin transport
    admRecv,     \* envelopes each admin peer has received, in order
    banPc,       \* position of each ban_endpoint call
    banId,       \* its client_id argument
    tmPc,        \* the close_later task each ban call may have created
    tmTarget,    \* history: the connection mapped when the task was created
    tmClosed,    \* history: the connection the task closed
    banListed,   \* history: the call's id and address were already banned
    wsDenied,    \* history: ban sets held the id or address at admission
    sendFailed,  \* history: admins on which a broadcast send raised
    subPc,       \* position of each create_audit / submit_sms call
    subData,     \* the record it submits; listed is history: the ban sets
                 \* held the submitter's id or address at the check;
                 \* answered is history: the BIN lookup gave a 200 answer
    subIdx,      \* list iterator position of the broadcast it is running
    nUnban,      \* unban calls made
    nDamage,     \* times the store file was damaged from outside
    rtB,         \* round trip: ids still to ban
    rtU,         \* round trip: ids still to unban
    rtAll,       \* round trip: the ban set at the start, and the sets B and U
    nFrames,     \* frames the session peers have sent
    wsGot,       \* the texts receive_text() returned to each session handler
    rdPc,        \* position of each admin_redirect call
    rdId,        \* its client_id
    rdResp,      \* its response
    rdHit,       \* history: its client_id was registered when it was made
    issued       \* history: per id, the statuses of the broadcasts started

vars == <<dbFile, admins, clients, wsPc, wsId, wsIp, wsIdx, wsPeer, wsRecv,
          admPc, admPeer, admRecv, banPc, banId, tmPc, tmTarget, tmClosed,
          wsDenied, sendFailed, subPc, subData, subIdx, nUnban, nDamage,
          banListed, rtB, rtU, rtAll, nFrames, wsGot, rdPc, rdId, rdResp,
          rdHit, issued>>

\* ------------------------------------------------------------ persistence
Keys == {"payments", "sms", "banned_ips", "banned_ids"}
default == [k \in Keys |-> <<>>]

\* load_db without its try / except: the bytes of a file that no longer
\* parses are read as if they did
load_db_unguarded ==
    IF dbFile.state = "missing" THEN default
    ELSE [k \in Keys |-> IF k \in DOMAIN dbFile.data THEN dbFile.data[k] ELSE default[k]]

\* load_db: the default when the file is missing or does not parse,
\* otherwise the parsed object with every missing key filled in
load_db ==
    IF dbFile.state = "missing" THEN default
    ELSE IF dbFile.state = "corrupt" THEN default
    ELSE [k \in Keys |-> IF k \in DOMAIN dbFile.data THEN dbFile.data[k] ELSE default[k]]

\* open(DB_FILE, "w"); json.dump(db)
dump(db) == [state |-> "ok", data |-> db]

InList(x, s) == \E i \in 1..Len(s) : s[i] = x

is_banned_ids_only(client_id, ip) ==
    LET db == load_db IN InList(client_id, db["banned_ids"])

is_banned_both(client_id, ip) ==
    LET db == load_db
    IN  InList(client_id, db["banned_ids"]) /\ InList(ip, db["banned_ips"])

is_banned(client_id, ip) ==
    LET db == load_db
    IN  InList(client_id, db["banned_ids"]) \/ InList(ip, db["banned_ips"])

\* ban_client with the membership tests left out
ban_client_no_test(client_id, ip) ==
    LET db == load_db
    IN  dump([db EXCEPT
            !["banned_ids"] = IF client_id # None THEN Append(@, client_id) ELSE @,
            !["banned_ips"] = IF ip # None THEN Append(@, ip) ELSE @])

ban_client(client_id, ip) ==
    LET db == load_db
    IN  dump([db EXCEPT
            !["banned_ids"] = IF client_id # None /\ ~InList(client_id, @)
                              THEN Append(@, client_id) ELSE @,
            !["banned_ips"] = IF ip # None /\ ~InList(ip, @)
                              THEN Append(@, ip) ELSE @])

\* unban_client removing from the other list
unban_client_swapped(client_id, ip) ==
    LET db == load_db
    IN  dump([db EXCEPT
            !["banned_ips"] = IF client_id # None /\ InList(client_id, @)
                              THEN RemoveFirst(@, client_id) ELSE @,
            !["banned_ids"] = IF ip # None /\ InList(ip, @)
                              THEN RemoveFirst(@, ip) ELSE @])

unban_client(client_id, ip) ==
    LET db == load_db
    IN  dump([db EXCEPT
            !["banned_ids"] = IF client_id # None /\ InList(client_id, @)
                              THEN RemoveFirst(@, client_id) ELSE @,
            !["banned_ips"] = IF ip # None /\ InList(ip, @)
                              THEN RemoveFirst(@, ip) ELSE @])

\* save_payment that writes without reading what the file holds
save_payment_blind(data) == dump([default EXCEPT !["payments"] = <<data>>])

save_payment(data) ==
    LET db == load_db
    IN  dump([db EXCEPT !["payments"] = Append(@, data)])

\* save_sms that writes the file back without the new code
save_sms_dropped(client_id, otp, token) == dump(load_db)

\* the timestamp field is a fresh uuid4 token
save_sms(client_id, otp, token) ==
    LET db == load_db
    IN  dump([db EXCEPT !["sms"] =
            Append(@, [client_id |-> client_id, otp |-> otp, timestamp |-> token])])

\* get_bin_info that lets a failed lookup through as an empty tuple
get_bin_info_unhandled(answered) ==
    IF answered
    THEN [bank |-> "Bank", type |-> "debit", brand |-> "visa", country |-> "France"]
    ELSE [bank |-> "", type |-> "", brand |-> "", country |-> ""]

\* get_bin_info: the looked-up tuple on a 200 answer, the fixed one otherwise
get_bin_info(answered) ==
    IF answered
    THEN [bank |-> "Bank", type |-> "debit", brand |-> "visa", country |-> "France"]
    ELSE [bank |-> "Inconnue", type |-> "N/A", brand |-> "N/A", country |-> "N/A"]

\* --------------------------------------------------------------- registry
\* client_id in self.clients
HasClient(client_id) == \E p \in clients : p[1] = client_id
\* self.clients[client_id]
ClientOf(client_id) == (CHOOSE p \in clients : p[1] = client_id)[2]

\* self.clients[client_id] = websocket
connect_client(client_id, ws) ==
    {p \in clients : p[1] # client_id} \cup {<<client_id, ws>>}

\* if client_id in self.clients: del self.clients[client_id]
disconnect_client(client_id) == {p \in clients : p[1] # client_id}

\* if websocket in self.admins: self.admins.remove(websocket)
disconnect_admin(a) == IF InList(a, admins) THEN RemoveFirst(admins, a) ELSE admins

\* -------------------------------------------------------------- transport
Last(s) == s[Len(s)]
\* the server side has sent its close frame on ws
ServerClosed(ws) == wsRecv[ws] # <<>> /\ Last(wsRecv[ws]).type = "CLOSE"
\* a send or close on ws succeeds: the peer is there and no close was sent
Live(ws) == wsPeer[ws] = "open" /\ ~ServerClosed(ws)

AcceptFrame == [type |-> "ACCEPT"]
BannedMsg == [type |-> "BANNED", redirect |-> "https://www.facebook.com"]
\* websocket.close(code=4003)
CloseFrame == [type |-> "CLOSE", code |-> BanCloseCode]
StatusMsg(client_id, status) ==
    [type |-> "CLIENT_STATUS", client_id |-> client_id, status |-> status]

\* ------------------------------------------------------------------- Init
\* database.json as the process finds it: absent, written by this program
\* (no duplicate in a ban list), or written before the ban lists existed
InitStores ==
    {[state |-> "missing", data |-> default]}
    \cup {[state |-> "ok", data |-> [default EXCEPT !["banned_ids"] = b]] :
            b \in {<<>>, <<1>>}}
    \cup {[state |-> "ok", data |-> [k \in {"payments", "sms"} |-> <<>>]]}

InitRest ==
    /\ admins = <<>>
    /\ clients = {}
    /\ wsPc = [w \in WS |-> "idle"]
    /\ wsId = [w \in WS |-> None]
    /\ wsIp = [w \in WS |-> None]
    /\ wsIdx = [w \in WS |-> 0]
    /\ wsPeer = [w \in WS |-> "none"]
    /\ wsRecv = [w \in WS |-> <<>>]
    /\ admPc = [a \in ADM |-> "idle"]
    /\ admPeer = [a \in ADM |-> "none"]
    /\ admRecv = [a \in ADM |-> <<>>]
    /\ banPc = [b \in BanTasks |-> "idle"]
    /\ banId = [b \in BanTasks |-> None]
    /\ tmPc = [b \in BanTasks |-> "none"]
    /\ tmTarget = [b \in BanTasks |-> 0]
    /\ tmClosed = [b \in BanTasks |-> 0]
    /\ wsDenied = [w \in WS |-> FALSE]
    /\ sendFailed = {}
    /\ subPc = [t \in SubTasks |-> "idle"]
    /\ subData = [t \in SubTasks |-> [kind |-> "none"]]
    /\ subIdx = [t \in SubTasks |-> 0]
    /\ nUnban = 0
    /\ nDamage = 0
    /\ banListed = [b \in BanTasks |-> FALSE]
    /\ nFrames = 0
    /\ wsGot = [w \in WS |-> <<>>]
    /\ rdPc = [r \in RedirectCalls |-> "idle"]
    /\ rdId = [r \in RedirectCalls |-> None]
    /\ rdResp = [r \in RedirectCalls |-> "none"]
    /\ rdHit = [r \in RedirectCalls |-> FALSE]
    /\ issued = [i \in Ids |-> <<>>]

Init ==
    /\ dbFile \in InitStores
    /\ rtB = {}
    /\ rtU = {}
    /\ rtAll = [prev |-> {}, B |-> {}, U |-> {}]
    /\ InitRest

\* a collection of the store as a reader of a well-formed file finds it
Stored(k) ==
    IF dbFile.state = "ok" /\ k \in DOMAIN dbFile.data THEN dbFile.data[k] ELSE <<>>

\* the records of a collection that the bytes of the file hold, whether or
\* not the file still parses
OnDisk(k) ==
    IF dbFile.state # "missing" /\ k \in DOMAIN dbFile.data THEN dbFile.data[k] ELSE <<>>

rtVars == <<rtB, rtU, rtAll>>
storeVars == <<dbFile, nUnban, nDamage, rtVars>>
adminVars == <<admins, admPc, admPeer>>
wsVars == <<wsPc, wsId, wsIp, wsIdx, wsPeer, wsDenied>>
banVars == <<banPc, banId, tmPc, tmTarget, tmClosed, banListed>>
subVars == <<subPc, subData, subIdx>>
frameVars == <<nFrames, wsGot>>
rdVars == <<rdPc, rdId, rdResp, rdHit>>

\* --------------------------------------------------------------- broadcast
\* await connection.send_json(message) inside try/except: delivered to a
\* peer that is there, an exception that is swallowed otherwise
SendToAdmin(a, msg) ==
    IF admPeer[a] = "open"
    THEN /\ admRecv' = [admRecv EXCEPT ![a] = Append(@, msg)]
         /\ sendFailed' = sendFailed
    ELSE /\ admRecv' = admRecv
         /\ sendFailed' = sendFailed \cup {a}

\* broadcast_to_admins, one turn of "for connection in self.admins" run by
\* session handler ws with the list iterator at position i: the next send,
\* or the end of the loop and the code that follows it
WsBroadcast(ws, i, msg, during, after) ==
    IF i <= Len(admins)
    THEN /\ SendToAdmin(admins[i], msg)
         /\ wsIdx' = [wsIdx EXCEPT ![ws] = i + 1]
         /\ wsPc' = [wsPc EXCEPT ![ws] = during]
    ELSE /\ UNCHANGED <<admRecv, sendFailed>>
         /\ wsIdx' = [wsIdx EXCEPT ![ws] = 0]
         /\ wsPc' = [wsPc EXCEPT ![ws] = after]

\* ---------------------------------------------------------- /ws/admin
\* websocket_admin up to "await websocket.accept()"
AdminConnect(a) ==
    /\ admPc[a] = "idle"
    /\ \A x \in ADM : x < a => admPc[x] # "idle"
    /\ admPc' = [admPc EXCEPT ![a] = "accept"]
    /\ admPeer' = [admPeer EXCEPT ![a] = "open"]
    /\ UNCHANGED <<frameVars, rdVars, issued, storeVars, admins, clients, wsVars, wsRecv, admRecv, banVars,
                   sendFailed, subVars>>

\* self.admins.append(websocket), then the first receive_text()
AdminRegister(a) ==
    /\ admPc[a] = "accept"
    /\ admins' = Append(admins, a)
    /\ admPc' = [admPc EXCEPT ![a] = "recv"]
    /\ UNCHANGED <<frameVars, rdVars, issued, storeVars, admPeer, clients, wsVars, wsRecv, admRecv, banVars,
                   sendFailed, subVars>>

\* the admin's transport goes away
AdminDrops(a) ==
    /\ admPc[a] \in {"accept", "recv"}
    /\ admPeer[a] = "open"
    /\ admPeer' = [admPeer EXCEPT ![a] = "gone"]
    /\ UNCHANGED <<frameVars, rdVars, issued, storeVars, admins, admPc, clients, wsVars, wsRecv, admRecv,
                   banVars, sendFailed, subVars>>

\* receive_text() raises WebSocketDisconnect: manager.disconnect_admin
AdminDisconnect(a) ==
    /\ admPc[a] = "recv"
    /\ admPeer[a] = "gone"
    /\ admins' = disconnect_admin(a)
    /\ admPc' = [admPc EXCEPT ![a] = "done"]
    /\ UNCHANGED <<frameVars, rdVars, issued, storeVars, admPeer, clients, wsVars, wsRecv, admRecv, banVars,
                   sendFailed, subVars>>

\* ------------------------------------------------- /ws/client/{client_id}
\* websocket_client up to its first await: the admission check, then the
\* accept() of either branch
WsConnect(ws, client_id, ip) ==
    /\ wsPc[ws] = "idle"
    /\ \A x \in WS : x < ws => wsPc[x] # "idle"
    /\ wsId' = [wsId EXCEPT ![ws] = client_id]
    /\ wsIp' = [wsIp EXCEPT ![ws] = ip]
    /\ wsDenied' = [wsDenied EXCEPT ![ws] =
            client_id \in Range(Stored("banned_ids")) \/ ip \in Range(Stored("banned_ips"))]
    /\ wsPeer' = [wsPeer EXCEPT ![ws] = "open"]
    /\ wsRecv' = [wsRecv EXCEPT ![ws] = <<AcceptFrame>>]
    /\ wsPc' = [wsPc EXCEPT ![ws] =
            IF is_banned(client_id, ip) THEN "b_accept" ELSE "accept"]
    /\ UNCHANGED <<frameVars, rdVars, issued, storeVars, adminVars, admRecv, clients, wsIdx, banVars,
                   sendFailed, subVars>>

\* the banned branch without its send_json
WsBannedNotifyOmitted(ws) ==
    /\ wsPc[ws] = "b_accept"
    /\ wsPc' = [wsPc EXCEPT ![ws] = IF Live(ws) THEN "b_send" ELSE "b_error"]
    /\ UNCHANGED <<frameVars, rdVars, issued, storeVars, adminVars, admRecv, clients, wsId, wsIp, wsIdx,
                   wsPeer, wsRecv, wsDenied, banVars, sendFailed, subVars>>

\* banned branch: send_json(BANNED); a peer that left makes it raise
WsBannedNotify(ws) ==
    /\ wsPc[ws] = "b_accept"
    /\ IF Live(ws)
       THEN /\ wsRecv' = [wsRecv EXCEPT ![ws] = Append(@, BannedMsg)]
            /\ wsPc' = [wsPc EXCEPT ![ws] = "b_send"]
       ELSE /\ wsRecv' = wsRecv
            /\ wsPc' = [wsPc EXCEPT ![ws] = "b_error"]
    /\ UNCHANGED <<frameVars, rdVars, issued, storeVars, adminVars, admRecv, clients, wsId, wsIp, wsIdx,
                   wsPeer, wsDenied, banVars, sendFailed, subVars>>

\* banned branch: close(code=4003), then return
WsBannedClose(ws) ==
    /\ wsPc[ws] = "b_send"
    /\ IF Live(ws)
       THEN /\ wsRecv' = [wsRecv EXCEPT ![ws] = Append(@, CloseFrame)]
            /\ wsPc' = [wsPc EXCEPT ![ws] = "b_done"]
       ELSE /\ wsRecv' = wsRecv
            /\ wsPc' = [wsPc EXCEPT ![ws] = "b_error"]
    /\ UNCHANGED <<frameVars, rdVars, issued, storeVars, adminVars, admRecv, clients, wsId, wsIp, wsIdx,
                   wsPeer, wsDenied, banVars, sendFailed, subVars>>

\* receive_text() called on ws: it raises at once, and not a
\* WebSocketDisconnect, when this side has already sent its close frame
ReceivePc(ws) == IF ServerClosed(ws) THEN "error" ELSE "recv"

\* connect_client after accept(): the registration, then the start of the
\* online broadcast
WsRegister(ws) ==
    /\ wsPc[ws] = "accept"
    /\ clients' = connect_client(wsId[ws], ws)
    /\ issued' = [issued EXCEPT ![wsId[ws]] = Append(@, "online")]
    /\ WsBroadcast(ws, 1, StatusMsg(wsId[ws], "online"), "bc_online", ReceivePc(ws))
    /\ UNCHANGED <<frameVars, rdVars, storeVars, adminVars, wsId, wsIp, wsPeer, wsRecv, wsDenied,
                   banVars, subVars>>

\* the online broadcast resumes after a send
WsOnlineNext(ws) ==
    /\ wsPc[ws] = "bc_online"
    /\ WsBroadcast(ws, wsIdx[ws], StatusMsg(wsId[ws], "online"), "bc_online",
                   ReceivePc(ws))
    /\ UNCHANGED <<frameVars, rdVars, issued, storeVars, adminVars, clients, wsId, wsIp, wsPeer, wsRecv,
                   wsDenied, banVars, subVars>>

\* the session's transport goes away
ClientDrops(ws) ==
    /\ wsPc[ws] \in {"b_accept", "b_send", "accept", "bc_online", "recv", "ev"}
    /\ Live(ws)
    /\ wsPeer' = [wsPeer EXCEPT ![ws] = "gone"]
    /\ UNCHANGED <<frameVars, rdVars, issued, storeVars, adminVars, admRecv, clients, wsPc, wsId, wsIp, wsIdx,
                   wsRecv, wsDenied, banVars, sendFailed, subVars>>

\* receive_text() raises WebSocketDisconnect: disconnect_client, then the
\* start of the offline broadcast
WsDisconnect(ws) ==
    /\ wsPc[ws] = "recv"
    /\ ~Live(ws)
    /\ clients' = disconnect_client(wsId[ws])
    /\ issued' = [issued EXCEPT ![wsId[ws]] = Append(@, "offline")]
    /\ WsBroadcast(ws, 1, StatusMsg(wsId[ws], "offline"), "bc_offline", "done")
    /\ UNCHANGED <<frameVars, rdVars, storeVars, adminVars, wsId, wsIp, wsPeer, wsRecv, wsDenied,
                   banVars, subVars>>

\* the offline broadcast resumes after a send
WsOfflineNext(ws) ==
    /\ wsPc[ws] = "bc_offline"
    /\ WsBroadcast(ws, wsIdx[ws], StatusMsg(wsId[ws], "offline"), "bc_offline", "done")
    /\ UNCHANGED <<frameVars, rdVars, issued, storeVars, adminVars, clients, wsId, wsIp, wsPeer, wsRecv,
                   wsDenied, banVars, subVars>>

\* ------------------------------------------------ inbound session frames
\* texts a session peer sends: one that is not JSON, a JSON array, and JSON
\* objects with an "event" and a "data" member
EventTags == {"CLIENT_EVENT", "cc_input"}
Frames ==
    {[json |-> "invalid"], [json |-> "array"]}
    \cup {[json |-> "object", event |-> e, data |-> "d"] : e \in EventTags}

\* json.loads(p) followed by r.get: raises on a text that is not JSON, and
\* on a value that has no get (a list)
Parses(p) == p.json = "object"

EventMsg(client_id, r) ==
    [type |-> "CLIENT_EVENT", client_id |-> client_id, event |-> r.event, data |-> r.data]

\* "for a in manager.admins: await a.send_json(...)" inside try / except:
\* pass, iterator at position i: the next send, a send that raises and ends
\* the loop, or the end of the loop; then receive_text() again
WsForward(ws, i, msg) ==
    IF i <= Len(admins)
    THEN IF admPeer[admins[i]] = "open"
         THEN /\ admRecv' = [admRecv EXCEPT ![admins[i]] = Append(@, msg)]
              /\ sendFailed' = sendFailed
              /\ wsIdx' = [wsIdx EXCEPT ![ws] = i + 1]
              /\ wsPc' = [wsPc EXCEPT ![ws] = "ev"]
         ELSE /\ admRecv' = admRecv
              /\ sendFailed' = sendFailed \cup {admins[i]}
              /\ wsIdx' = [wsIdx EXCEPT ![ws] = 0]
              /\ wsPc' = [wsPc EXCEPT ![ws] = ReceivePc(ws)]
    ELSE /\ UNCHANGED <<admRecv, sendFailed>>
         /\ wsIdx' = [wsIdx EXCEPT ![ws] = 0]
         /\ wsPc' = [wsPc EXCEPT ![ws] = ReceivePc(ws)]

\* receive_text() returns the text p: json.loads, then the forwarding loop
\* starts, or the except branch and the next receive_text()
WsFrame(ws, p) ==
    /\ wsPc[ws] = "recv"
    /\ Live(ws)
    /\ nFrames < MaxFrames
    /\ nFrames' = nFrames + 1
    /\ wsGot' = [wsGot EXCEPT ![ws] = Append(@, p)]
    /\ IF Parses(p)
       THEN WsForward(ws, 1, EventMsg(wsId[ws], p))
       ELSE UNCHANGED <<admRecv, sendFailed, wsIdx, wsPc>>
    /\ UNCHANGED <<storeVars, adminVars, clients, wsId, wsIp, wsPeer, wsRecv,
                   wsDenied, banVars, subVars, rdVars, issued>>

\* the forwarding loop resumes after a send
WsEventNext(ws) ==
    /\ wsPc[ws] = "ev"
    /\ WsForward(ws, wsIdx[ws], EventMsg(wsId[ws], Last(wsGot[ws])))
    /\ UNCHANGED <<storeVars, adminVars, clients, wsId, wsIp, wsPeer, wsRecv,
                   wsDenied, banVars, subVars, frameVars, rdVars, issued>>

\* ------------------------------------------------------ /v1/admin/ban
\* ban_endpoint up to its first await: ban_client, then send_to_client,
\* which sends only to a mapped id and swallows a failing send
BanCall(b, client_id, ip) ==
    /\ banPc[b] = "idle"
    /\ \A x \in BanTasks : x < b => banPc[x] # "idle"
    /\ dbFile' = ban_client(client_id, ip)
    /\ banId' = [banId EXCEPT ![b] = client_id]
    /\ banListed' = [banListed EXCEPT ![b] =
            /\ client_id # None \/ ip # None
            /\ client_id # None => client_id \in Range(Stored("banned_ids"))
            /\ ip # None => ip \in Range(Stored("banned_ips"))]
    /\ IF client_id # None /\ HasClient(client_id)
       THEN /\ banPc' = [banPc EXCEPT ![b] = "send"]
            /\ wsRecv' = [wsRecv EXCEPT ![ClientOf(client_id)] =
                    IF Live(ClientOf(client_id)) THEN Append(@, BannedMsg) ELSE @]
       ELSE /\ banPc' = [banPc EXCEPT ![b] = "done"]
            /\ wsRecv' = wsRecv
    /\ UNCHANGED <<frameVars, rdVars, issued, nUnban, nDamage, rtVars, adminVars, admRecv, clients, wsVars,
                   tmPc, tmTarget, tmClosed, sendFailed, subVars>>

\* after the send: asyncio.create_task(close_later(client_id)) when the id
\* is mapped, then return
BanSchedule(b) ==
    /\ banPc[b] = "send"
    /\ banPc' = [banPc EXCEPT ![b] = "done"]
    /\ IF HasClient(banId[b])
       THEN /\ tmPc' = [tmPc EXCEPT ![b] = "sleep"]
            /\ tmTarget' = [tmTarget EXCEPT ![b] = ClientOf(banId[b])]
       ELSE UNCHANGED <<tmPc, tmTarget>>
    /\ UNCHANGED <<frameVars, rdVars, issued, storeVars, adminVars, admRecv, clients, wsVars, wsRecv, banId,
                   tmClosed, banListed, sendFailed, subVars>>

\* close_later after asyncio.sleep(1): closes whatever the id maps to now
close_later(b) ==
    /\ tmPc[b] = "sleep"
    /\ tmPc' = [tmPc EXCEPT ![b] = "done"]
    /\ IF HasClient(banId[b]) /\ Live(ClientOf(banId[b]))
       THEN /\ wsRecv' = [wsRecv EXCEPT ![ClientOf(banId[b])] = Append(@, CloseFrame)]
            /\ tmClosed' = [tmClosed EXCEPT ![b] = ClientOf(banId[b])]
       ELSE UNCHANGED <<wsRecv, tmClosed>>
    /\ UNCHANGED <<frameVars, rdVars, issued, storeVars, adminVars, admRecv, clients, wsVars, banPc, banId,
                   tmTarget, banListed, sendFailed, subVars>>

\* -------------------------------------------------- /v1/admin/redirect
Targets == {"checkout", "sms"}
RedirectMsg(target) == [type |-> "REDIRECT", url |-> "/" \o target]

\* send_to_client that does not test "client_id in self.clients": it
\* writes to every open connection when the id is not registered
send_to_client_untested(client_id, message) ==
    IF HasClient(client_id)
    THEN IF Live(ClientOf(client_id))
         THEN [wsRecv EXCEPT ![ClientOf(client_id)] = Append(@, message)]
         ELSE wsRecv
    ELSE [w \in WS |-> IF Live(w) THEN Append(wsRecv[w], message) ELSE wsRecv[w]]

\* send_to_client: a send to the connection the id maps to, if any, whose
\* failure is swallowed; the connections as they are afterwards
send_to_client(client_id, message) ==
    IF HasClient(client_id)
    THEN IF Live(ClientOf(client_id))
         THEN [wsRecv EXCEPT ![ClientOf(client_id)] = Append(@, message)]
         ELSE wsRecv
    ELSE wsRecv

\* admin_redirect up to the await inside send_to_client, or to its return
\* when send_to_client had nothing to await
RedirectCall(r, client_id, target) ==
    /\ rdPc[r] = "idle"
    /\ \A x \in RedirectCalls : x < r => rdPc[x] # "idle"
    /\ rdId' = [rdId EXCEPT ![r] = client_id]
    /\ rdHit' = [rdHit EXCEPT ![r] = HasClient(client_id)]
    /\ wsRecv' = send_to_client(client_id, RedirectMsg(target))
    /\ IF HasClient(client_id)
       THEN /\ rdPc' = [rdPc EXCEPT ![r] = "send"]
            /\ rdResp' = rdResp
       ELSE /\ rdPc' = [rdPc EXCEPT ![r] = "done"]
            /\ rdResp' = [rdResp EXCEPT ![r] = "command_sent"]
    /\ UNCHANGED <<storeVars, adminVars, admRecv, clients, wsVars, banVars,
                   sendFailed, subVars, frameVars, issued>>

\* after the send: return {"status": "command_sent"}
RedirectReturn(r) ==
    /\ rdPc[r] = "send"
    /\ rdPc' = [rdPc EXCEPT ![r] = "done"]
    /\ rdResp' = [rdResp EXCEPT ![r] = "command_sent"]
    /\ UNCHANGED <<storeVars, adminVars, admRecv, clients, wsVars, wsRecv, banVars,
                   sendFailed, subVars, frameVars, rdId, rdHit, issued>>

\* ---------------------------------------------------- /v1/admin/unban
UnbanCall(client_id, ip) ==
    /\ nUnban < MaxUnbanCalls
    /\ nUnban' = nUnban + 1
    /\ dbFile' = unban_client(client_id, ip)
    /\ UNCHANGED <<frameVars, rdVars, issued, nDamage, rtVars, adminVars, admRecv, clients, wsVars, wsRecv,
                   banVars, sendFailed, subVars>>

\* ------------------------------------------- /v1/audit, /v1/sms-submit
Otps == {"1234", "0000"}
PaymentMsg(data) == [type |-> "NEW_PAYMENT", data |-> data]
SmsMsg(client_id, otp) == [type |-> "NEW_SMS", client_id |-> client_id, otp |-> otp]
SubMsg(d) ==
    IF d.kind = "payment" THEN PaymentMsg(d.rec) ELSE SmsMsg(d.rec.client_id, d.rec.otp)

\* broadcast_to_admins run by submission t, iterator at position i
SubBroadcast(t, i, msg) ==
    IF i <= Len(admins)
    THEN /\ SendToAdmin(admins[i], msg)
         /\ subIdx' = [subIdx EXCEPT ![t] = i + 1]
         /\ subPc' = [subPc EXCEPT ![t] = "bc"]
    ELSE /\ UNCHANGED <<admRecv, sendFailed>>
         /\ subIdx' = [subIdx EXCEPT ![t] = 0]
         /\ subPc' = [subPc EXCEPT ![t] = "done"]

\* create_audit up to "await get_bin_info": 403 for a banned submitter
AuditCall(t, client_id, ip) ==
    /\ subPc[t] = "idle"
    /\ \A x \in SubTasks : x < t => subPc[x] # "idle"
    /\ LET listed == \/ client_id \in Range(Stored("banned_ids"))
                     \/ ip \in Range(Stored("banned_ips"))
       IN  IF is_banned(client_id, ip)
           THEN /\ subPc' = [subPc EXCEPT ![t] = "done"]
                /\ subData' = [subData EXCEPT ![t] =
                        [kind |-> "refused", client_id |-> client_id,
                         adresse_ip |-> ip, listed |-> listed]]
           ELSE /\ subPc' = [subPc EXCEPT ![t] = "enrich"]
                /\ subData' = [subData EXCEPT ![t] =
                        [kind |-> "request", client_id |-> client_id,
                         adresse_ip |-> ip, listed |-> listed]]
    /\ UNCHANGED <<frameVars, rdVars, issued, storeVars, adminVars, admRecv, clients, wsVars, wsRecv, banVars,
                   sendFailed, subIdx>>

\* create_audit after get_bin_info: save_payment, then the NEW_PAYMENT
\* broadcast starts
AuditEnriched(t, answered) ==
    /\ subPc[t] = "enrich"
    /\ LET bin == get_bin_info(answered)
           data == [client_id |-> subData[t].client_id,
                    adresse_ip |-> subData[t].adresse_ip,
                    bank_name |-> bin.bank, card_type |-> bin.type,
                    country |-> bin.country]
       IN  /\ dbFile' = save_payment(data)
           /\ subData' = [subData EXCEPT ![t] =
                   [kind |-> "payment", rec |-> data, listed |-> subData[t].listed,
                    answered |-> answered]]
           /\ SubBroadcast(t, 1, PaymentMsg(data))
    /\ UNCHANGED <<frameVars, rdVars, issued, nUnban, nDamage, rtVars, adminVars, clients, wsVars, wsRecv,
                   banVars>>

\* submit_sms: save_sms, then the NEW_SMS broadcast starts
SmsCall(t, client_id, otp) ==
    /\ subPc[t] = "idle"
    /\ \A x \in SubTasks : x < t => subPc[x] # "idle"
    /\ dbFile' = save_sms(client_id, otp, t)
    /\ subData' = [subData EXCEPT ![t] =
            [kind |-> "sms", rec |-> [client_id |-> client_id, otp |-> otp]]]
    /\ SubBroadcast(t, 1, SmsMsg(client_id, otp))
    /\ UNCHANGED <<frameVars, rdVars, issued, nUnban, nDamage, rtVars, adminVars, clients, wsVars, wsRecv,
                   banVars>>

\* a submission's broadcast resumes after a send
SubNext(t) ==
    /\ subPc[t] = "bc"
    /\ SubBroadcast(t, subIdx[t], SubMsg(subData[t]))
    /\ UNCHANGED <<frameVars, rdVars, issued, storeVars, adminVars, clients, wsVars, wsRecv, banVars, subData>>

\* ------------------------------------------------------------ environment
\* database.json stops parsing (the except branch of load_db); its bytes,
\* and the records in them, are still in the file
StoreDamaged ==
    /\ nDamage < MaxDamage
    /\ dbFile.state = "ok"
    /\ nDamage' = nDamage + 1
    /\ dbFile' = [dbFile EXCEPT !.state = "corrupt"]
    /\ UNCHANGED <<frameVars, rdVars, issued, nUnban, rtVars, adminVars, admRecv, clients, wsVars, wsRecv,
                   banVars, sendFailed, subVars>>

\* ------------------------------------------------------------------- Next
AdminStepOf(A) ==
    \/ \E a \in A : AdminConnect(a)
    \/ \E a \in A : AdminRegister(a)
    \/ \E a \in A : AdminDrops(a)
    \/ \E a \in A : AdminDisconnect(a)

AdminStep == AdminStepOf(ADM)

SessionStepOf(W) ==
    \/ \E ws \in W, client_id \in Ids, ip \in Ips : WsConnect(ws, client_id, ip)
    \/ \E ws \in W : WsBannedNotify(ws)
    \/ \E ws \in W : WsBannedClose(ws)
    \/ \E ws \in W : WsRegister(ws)
    \/ \E ws \in W : WsOnlineNext(ws)
    \/ \E ws \in W : ClientDrops(ws)
    \/ \E ws \in W : WsDisconnect(ws)
    \/ \E ws \in W : WsOfflineNext(ws)

SessionStep == SessionStepOf(WS)

FrameStepOf(W) ==
    \/ \E ws \in W, p \in Frames : WsFrame(ws, p)
    \/ \E ws \in W : WsEventNext(ws)

FrameStep == FrameStepOf(WS)

BanStep ==
    \/ \E b \in BanTasks, client_id \in Ids \cup {None}, ip \in Ips \cup {None} :
            BanCall(b, client_id, ip)
    \/ \E b \in BanTasks : BanSchedule(b)
    \/ \E b \in BanTasks : close_later(b)
    \/ \E client_id \in Ids \cup {None}, ip \in Ips \cup {None} : UnbanCall(client_id, ip)

SubmitStepOf(T) ==
    \/ \E t \in T, client_id \in Ids, ip \in Ips : AuditCall(t, client_id, ip)
    \/ \E t \in T, answered \in BOOLEAN : AuditEnriched(t, answered)
    \/ \E t \in T, client_id \in Ids, otp \in Otps : SmsCall(t, client_id, otp)
    \/ \E t \in T : SubNext(t)

SubmitStep == SubmitStepOf(SubTasks)

RedirectStep ==
    \/ \E r \in RedirectCalls, client_id \in Ids, target \in Targets :
            RedirectCall(r, client_id, target)
    \/ \E r \in RedirectCalls : RedirectReturn(r)

Next ==
    \/ AdminStep \/ SessionStep \/ FrameStep \/ BanStep \/ SubmitStep
    \/ RedirectStep \/ StoreDamaged

Spec == Init /\ [][Next]_vars

\* the relay: sessions, admins, bans and the store going bad, no submission
RelayNext == AdminStepOf(RelayADM) \/ SessionStep \/ BanStep \/ StoreDamaged
SpecRelay == Init /\ [][RelayNext]_vars

\* the sessions and their inbound frames, with the admins they are
\* forwarded to; no ban call and no submission
FramesNext == AdminStepOf(RelayADM) \/ SessionStep \/ FrameStep
SpecFrames == Init /\ [][FramesNext]_vars

\* the relay with inbound frames, under the scheduling of the event loop:
\* a coroutine that can resume is resumed, and a sleeping task wakes up.
\* Nothing obliges a peer to connect, send, leave, or call an endpoint.
LiveNext ==
    \/ AdminStepOf(RelayADM) \/ SessionStepOf(LiveWS) \/ FrameStepOf(LiveWS)
    \/ BanStep
Resumes(ws) ==
    \/ WsBannedNotify(ws) \/ WsBannedClose(ws) \/ WsRegister(ws)
    \/ WsOnlineNext(ws) \/ WsDisconnect(ws) \/ WsOfflineNext(ws)
    \/ WsEventNext(ws)
Fairness ==
    /\ \A ws \in LiveWS : WF_vars(Resumes(ws))
    /\ \A a \in RelayADM : WF_vars(AdminRegister(a) \/ AdminDisconnect(a))
    /\ \A b \in BanTasks : WF_vars(BanSchedule(b) \/ close_later(b))
SpecLive == Init /\ [][LiveNext]_vars /\ Fairness

\* redirect commands and the sessions they are sent to, with no admin
\* connected, so that a status broadcast has no one to send to
RedirectNext ==
    \/ \E ws \in LiveWS, client_id \in Ids, ip \in Ips : WsConnect(ws, client_id, ip)
    \/ \E ws \in LiveWS : WsRegister(ws)
    \/ \E ws \in LiveWS : ClientDrops(ws)
    \/ \E ws \in LiveWS : WsDisconnect(ws)
    \/ RedirectStep
SpecRedirect == Init /\ [][RedirectNext]_vars

\* presence: sessions coming and going under the same or different ids,
\* and all the admins their status broadcasts go to
PresenceNext == AdminStep \/ SessionStep
SpecPresence == Init /\ [][PresenceNext]_vars

\* the store and its writers, with the admins the submissions broadcast to
\* and no session connected
StoreNext ==
    \/ \E b \in BanTasks, client_id \in Ids \cup {None}, ip \in Ips \cup {None} :
            BanCall(b, client_id, ip)
    \/ \E client_id \in Ids \cup {None}, ip \in Ips \cup {None} : UnbanCall(client_id, ip)
    \/ SubmitStepOf(StoreSubTasks)
    \/ AdminStepOf(RelayADM)
    \/ StoreDamaged
SpecStore == Init /\ [][StoreNext]_vars

\* every reader and writer of the store, called while the file may be
\* missing or may stop parsing; no session and no admin is connected, so a
\* ban has no one to notify and a broadcast no one to send to
DefaultNext ==
    \/ \E b \in BanTasks, client_id \in Ids \cup {None}, ip \in Ips \cup {None} :
            BanCall(b, client_id, ip)
    \/ \E client_id \in Ids \cup {None}, ip \in Ips \cup {None} : UnbanCall(client_id, ip)
    \/ \E t \in StoreSubTasks, client_id \in Ids, ip \in Ips :
            AuditCall(t, client_id, ip)
    \/ \E t \in StoreSubTasks, answered \in BOOLEAN : AuditEnriched(t, answered)
    \/ \E t \in StoreSubTasks, client_id \in Ids, otp \in Otps :
            SmsCall(t, client_id, otp)
    \/ StoreDamaged
SpecDefault == Init /\ [][DefaultNext]_vars

\* the two submission endpoints and the admins they broadcast to
SubmitNext == SubmitStepOf(StoreSubTasks) \/ AdminStepOf(RelayADM)
SpecSubmit == Init /\ [][SubmitNext]_vars

\* the four writers of the store called in any interleaving, with an admin
\* for the broadcasts to suspend on; nothing damages the file from outside
WritersNext ==
    \/ \E b \in BanTasks, client_id \in Ids \cup {None}, ip \in Ips \cup {None} :
            BanCall(b, client_id, ip)
    \/ \E client_id \in Ids \cup {None}, ip \in Ips \cup {None} : UnbanCall(client_id, ip)
    \/ SubmitStep
    \/ AdminStepOf(RelayADM)
SpecWriters == Init /\ [][WritersNext]_vars

\* the moderation gate alone: the ban lists, their two writers, the store
\* going bad, and the admission check of a submission
GateNext ==
    \/ \E b \in BanTasks, client_id \in Ids \cup {None}, ip \in Ips \cup {None} :
            BanCall(b, client_id, ip)
    \/ \E client_id \in Ids \cup {None}, ip \in Ips \cup {None} : UnbanCall(client_id, ip)
    \/ \E t \in StoreSubTasks, client_id \in Ids, ip \in Ips :
            AuditCall(t, client_id, ip)
    \/ StoreDamaged
SpecGate == Init /\ [][GateNext]_vars

\* ------------------------------------------------- ban / unban round trip
\* ban_client over the ids of a set B in any order, then unban_client over
\* the ids of a set U in any order, from any store
DupFreeLists(S) ==
    {l \in UNION {[1..n -> S] : n \in 0..Cardinality(S)} : NoDup(l)}

RtStores ==
    {[state |-> "missing", data |-> default]}
    \cup {[state |-> st, data |-> [default EXCEPT !["banned_ids"] = l]] :
            st \in {"ok", "corrupt"}, l \in DupFreeLists(Ids)}

RtInit ==
    /\ dbFile \in RtStores
    /\ rtB \in SUBSET Ids
    /\ rtU \in SUBSET Ids
    /\ rtAll = [prev |-> Range(Stored("banned_ids")), B |-> rtB, U |-> rtU]
    /\ InitRest

RtBan(client_id, ip) ==
    /\ client_id \in rtB
    /\ dbFile' = ban_client(client_id, ip)
    /\ rtB' = rtB \ {client_id}
    /\ UNCHANGED <<frameVars, rdVars, issued, rtU, rtAll, nUnban, nDamage, adminVars, admRecv, clients, wsVars,
                   wsRecv, banVars, sendFailed, subVars>>

RtUnban(client_id, ip) ==
    /\ rtB = {}
    /\ client_id \in rtU
    /\ dbFile' = unban_client(client_id, ip)
    /\ rtU' = rtU \ {client_id}
    /\ UNCHANGED <<frameVars, rdVars, issued, rtB, rtAll, nUnban, nDamage, adminVars, admRecv, clients, wsVars,
                   wsRecv, banVars, sendFailed, subVars>>

RtNext ==
    \/ \E client_id \in Ids, ip \in Ips \cup {None} : RtBan(client_id, ip)
    \/ \E client_id \in Ids, ip \in Ips \cup {None} : RtUnban(client_id, ip)
SpecRoundTrip == RtInit /\ [][RtNext]_vars

\* ----------------------------------------------------------------- claims
Mapped(ws) == \E p \in clients : p[2] = ws
BannedPcs == {"b_accept", "b_send", "b_done", "b_error"}
Count(l, type) == Cardinality({i \in 1..Len(l) : l[i].type = type})
OnlineCount(a, client_id) ==
    Cardinality({i \in 1..Len(admRecv[a]) :
        /\ admRecv[a][i].type = "CLIENT_STATUS"
        /\ admRecv[a][i].client_id = client_id
        /\ admRecv[a][i].status = "online"})

\* C1: when the disconnect of a connection is processed, every registration
\* of another connection stays in the Registry: a disconnect removes the
\* mapping of its id only when the mapped connection is the one disconnecting.
C1_DisconnectKeepsNewer ==
    [][\A ws \in WS :
        (wsPc[ws] = "recv" /\ wsPc'[ws] \in {"bc_offline", "done"})
            => \A p \in clients : p[2] # ws => p \in clients']_vars

\* C2: the forced-closure task of a ban closes only the connection that was
\* registered under the id when the task was scheduled, never another one.
C2_TimerClosesOwnConnection ==
    \A b \in BanTasks : tmClosed[b] # 0 => tmClosed[b] = tmTarget[b]

C4_BannedBeforeForcedClose ==
    \A b \in BanTasks : tmClosed[b] # 0 =>
        LET l == wsRecv[tmClosed[b]]
        IN  /\ Count(l, "BANNED") = 1
            /\ \E i, j \in 1..Len(l) :
                  i < j /\ l[i].type = "BANNED" /\ l[j].type = "CLOSE"

\* what the peer of a denied attempt observes when the branch runs through
DeniedRun == <<AcceptFrame, BannedMsg, CloseFrame>>

\* C5 as stated: a denied attempt that has ended was accepted, sent one
\* BANNED envelope with a redirect target and closed with code 4003.
C5_DeniedAlwaysNotified ==
    \A ws \in WS : wsPc[ws] \in {"b_done", "b_error"} => wsRecv[ws] = DeniedRun

\* C5 amended: a denied attempt observes a prefix of accept, one BANNED with
\* a redirect target, close 4003, in that order; it observes all of it when
\* the branch returns, and the branch ends early only by a send or close
\* that raised because the peer had gone.
C5_DeniedNotifiedUnlessPeerGone ==
    \A ws \in WS :
        /\ wsPc[ws] \in BannedPcs => IsPrefix(wsRecv[ws], DeniedRun)
        /\ wsPc[ws] = "b_done" =>
              /\ wsRecv[ws] = DeniedRun
              /\ Last(wsRecv[ws]).code = 4003
              /\ wsRecv[ws][2].redirect # ""
        /\ wsPc[ws] = "b_error" => wsPeer[ws] = "gone"

C5_Witness ==
    \E ws \in WS : wsPc[ws] = "b_done" /\ wsPeer[ws] = "open"

\* C6: once no broadcast is running, the supervisor list holds no admin on
\* which a broadcast send has failed.
C6_FailedSupervisorRemoved ==
    ((\A ws \in WS : wsPc[ws] \notin {"bc_online", "bc_offline"})
        /\ (\A t \in SubTasks : subPc[t] # "bc"))
    => sendFailed \cap Range(admins) = {}

\* C7: the payment and OTP collections only grow at the end: every step
\* leaves each record already in the file in place and unchanged.
C7_CollectionsAppendOnly ==
    [][/\ IsPrefix(OnDisk("payments"), OnDisk("payments")')
       /\ IsPrefix(OnDisk("sms"), OnDisk("sms")')]_vars

RtDone == rtB = {} /\ rtU = {}

\* C8: after the bans of B and then the unbans of U, in any order inside
\* each phase, the banned ids are the ids, banned before or in B, that are
\* not in U, each once.
C8_RoundTrip ==
    RtDone =>
        /\ Range(Stored("banned_ids")) = (rtAll.prev \cup rtAll.B) \ rtAll.U
        /\ NoDup(Stored("banned_ids"))

\* both phases have run, over sets that overlap each other and the ids
\* banned before
C8_Witness ==
    /\ RtDone
    /\ rtAll.B \cap rtAll.U # {}
    /\ rtAll.B \ rtAll.U # {}
    /\ rtAll.prev \cap rtAll.B # {}
    /\ Stored("banned_ids") # <<>>

C10_IsBannedReadsStore ==
    \A t \in SubTasks :
        subData[t].kind \in {"refused", "request"} =>
            (subData[t].kind = "refused" <=> subData[t].listed)

\* a submission was refused under the id that a completed ban call, not
\* already covered by the lists, had named
C10_Witness ==
    \E t \in SubTasks, b \in BanTasks :
        /\ subData[t].kind = "refused"
        /\ banPc[b] = "done" /\ ~banListed[b]
        /\ banId[b] = subData[t].client_id

\* the message kinds of the protocol
MessageKinds ==
    {"NEW_PAYMENT", "NEW_SMS", "CLIENT_STATUS", "CLIENT_EVENT", "REDIRECT", "BANNED"}
Discardable(p) == ~Parses(p) \/ p.event \notin MessageKinds

\* C11: a step in which a session handler receives a frame that does not
\* parse, or whose event tag is outside the message kinds, delivers nothing
\* to any admin, sends nothing to any session, leaves the Registry as it
\* was and leaves the handler at its receive.
C11_BadFrameDiscarded ==
    [][\A ws \in WS :
        (Len(wsGot'[ws]) > Len(wsGot[ws]) /\ Discardable(Last(wsGot'[ws]))) =>
            /\ admRecv' = admRecv
            /\ wsRecv' = wsRecv
            /\ clients' = clients
            /\ wsPc'[ws] = "recv"]_vars

Admitted(ws) == wsPc[ws] \in {"recv", "ev"}

\* C12: an admitted session whose connection has ended, by its peer
\* leaving or by the close of a ban, leads to its handler having run the
\* offline broadcast to the end with no Registry entry for the connection.
C12_EndedSessionGoesOffline ==
    \A ws \in LiveWS :
        (Admitted(ws) /\ ~Live(ws)) ~> (wsPc[ws] = "done" /\ ~Mapped(ws))

\* C13: a redirect command for an id that maps to no connection sends
\* nothing to any session or admin, leaves the Registry and the store file
\* as they were, and returns the status command_sent at once.
C13_RedirectUnregisteredNoOp ==
    [][\A r \in RedirectCalls :
        (rdPc[r] = "idle" /\ rdPc'[r] # "idle" /\ ~HasClient(rdId'[r])) =>
            /\ wsRecv' = wsRecv
            /\ admRecv' = admRecv
            /\ clients' = clients
            /\ dbFile' = dbFile
            /\ rdPc'[r] = "done"
            /\ rdResp'[r] = "command_sent"]_vars

\* a redirect named an unregistered id while a session was registered and
\* open under another id
C13_Witness ==
    \E r \in RedirectCalls, ws \in WS :
        /\ rdPc[r] = "done" /\ ~rdHit[r] /\ rdResp[r] = "command_sent"
        /\ Mapped(ws) /\ Live(ws) /\ wsId[ws] # rdId[r]
        /\ Count(wsRecv[ws], "REDIRECT") = 0

Unreadable == dbFile.state \in {"missing", "corrupt"}
OneOrNone(x) == IF x = None THEN <<>> ELSE <<x>>

\* C14: while the file is missing or does not parse, load_db is the store
\* of four empty collections and is_banned answers false for every id and
\* address; and a ban, an unban, a payment and an OTP submission made then
\* each run to their end, leaving a file that parses and holds the empty
\* store with the call's own change.
C14_UnreadableStoreIsDefault ==
    [][Unreadable =>
        /\ load_db = default
        /\ \A k \in Keys : load_db[k] = <<>>
        /\ \A client_id \in Ids, ip \in Ips : ~is_banned(client_id, ip)
        /\ \A b \in BanTasks : (banPc[b] = "idle" /\ banPc'[b] # "idle") =>
              /\ dbFile'.state = "ok"
              /\ Stored("banned_ids")' = OneOrNone(banId'[b])
              /\ Len(Stored("banned_ips")') <= 1
              /\ Stored("payments")' = <<>> /\ Stored("sms")' = <<>>
        /\ nUnban' # nUnban => dbFile' = dump(default)
        /\ \A t \in SubTasks :
              /\ (subPc[t] = "idle" /\ subData'[t].kind \in {"refused", "request"})
                    => subData'[t].kind = "request" /\ subPc'[t] = "enrich"
              /\ (subPc[t] = "enrich" /\ subPc'[t] # "enrich") =>
                    /\ subPc'[t] \in {"bc", "done"}
                    /\ dbFile' = dump([default EXCEPT
                            !["payments"] = <<subData'[t].rec>>])
              /\ (subPc[t] = "idle" /\ subData'[t].kind = "sms") =>
                    /\ subPc'[t] \in {"bc", "done"}
                    /\ dbFile'.state = "ok"
                    /\ Len(Stored("sms")') = 1
                    /\ Stored("sms")'[1].otp = subData'[t].rec.otp
                    /\ Stored("sms")'[1].client_id = subData'[t].rec.client_id
                    /\ Stored("payments")' = <<>>
                    /\ Stored("banned_ids")' = <<>>]_vars

\* the file stopped parsing, and a payment was then written by a writer
\* that found nothing to read: the file parses again and holds that record
\* alone
C14_Witness ==
    \E t \in SubTasks :
        /\ nDamage > 0
        /\ dbFile.state = "ok"
        /\ subData[t].kind = "payment"
        /\ Stored("payments") = <<subData[t].rec>>
        /\ Stored("banned_ids") = <<>>
        /\ subData[t].rec.client_id = 1

\* a payment whose BIN lookup failed has been saved by submission t
FailedLookup(t) == subData[t].kind = "payment" /\ ~subData[t].answered

\* C15: the step that follows a failed BIN lookup appends exactly one
\* record to the payments, with bank name, card type and country at their
\* fixed unknown values, and starts the NEW_PAYMENT broadcast of that
\* record; the only thing an admin is sent by that submission is that
\* envelope, and the call goes on to its normal end.
C15_FailedLookupStillSubmits ==
    [][\A t \in SubTasks :
        /\ (subPc[t] = "enrich" /\ subPc'[t] # "enrich" /\ ~subData'[t].answered) =>
              LET rec == subData'[t].rec
              IN  /\ rec.bank_name = "Inconnue"
                  /\ rec.card_type = "N/A"
                  /\ rec.country = "N/A"
                  /\ rec.client_id = subData[t].client_id
                  /\ Stored("payments")' = Append(Stored("payments"), rec)
                  /\ subPc'[t] \in {"bc", "done"}
                  /\ SubMsg(subData'[t]) = PaymentMsg(rec)
                  /\ admins # <<>> => subPc'[t] = "bc"
                  /\ \A a \in ADM : admRecv'[a] # admRecv[a] =>
                        /\ a = admins[1]
                        /\ admRecv'[a] = Append(admRecv[a], PaymentMsg(rec))
                  /\ (admins # <<>> /\ admPeer[admins[1]] = "open") =>
                        admRecv'[admins[1]] # admRecv[admins[1]]
        /\ (FailedLookup(t) /\ subPc[t] = "bc" /\ subPc'[t] # subPc[t]) =>
              /\ subPc'[t] = "done"
              /\ admRecv' = admRecv]_vars

\* a payment whose lookup failed has run to its end and an admin holds its
\* NEW_PAYMENT envelope with the unknown values
C15_Witness ==
    \E t \in SubTasks, a \in ADM :
        /\ FailedLookup(t) /\ subPc[t] = "done"
        /\ admRecv[a] = <<PaymentMsg(subData[t].rec)>>
        /\ admRecv[a][1].data.bank_name = "Inconnue"
        /\ Stored("payments") = <<subData[t].rec>>

\* the statuses of the CLIENT_STATUS envelopes for an id in an admin's inbox
StatusSeq(a, client_id) ==
    LET IsStatus(m) == m.type = "CLIENT_STATUS" /\ m.client_id = client_id
        l == SelectSeq(admRecv[a], IsStatus)
    IN  [i \in 1..Len(l) |-> l[i].status]

RECURSIVE IsSubseq(_, _)
\* s can be obtained from t by leaving elements out, the order kept
IsSubseq(s, t) ==
    IF s = <<>> THEN TRUE
    ELSE IF t = <<>> THEN FALSE
    ELSE IF Head(s) = Head(t) THEN IsSubseq(Tail(s), Tail(t))
    ELSE IsSubseq(s, Tail(t))

\* C16: for every id, the online and offline envelopes that an admin who
\* is still connected has received are in the order in which their
\* broadcasts were started.
C16_StatusInIssueOrder ==
    \A a \in ADM, client_id \in Ids :
        admPeer[a] = "open" => IsSubseq(StatusSeq(a, client_id), issued[client_id])

\* the record of every submission that has written is in the store
SubmissionsKept ==
    \A t \in SubTasks :
        /\ subData[t].kind = "payment" => InList(subData[t].rec, Stored("payments"))
        /\ subData[t].kind = "sms" =>
              \E i \in 1..Len(Stored("sms")) :
                  /\ Stored("sms")[i].timestamp = t
                  /\ Stored("sms")[i].otp = subData[t].rec.otp
                  /\ Stored("sms")[i].client_id = subData[t].rec.client_id

\* C17: every step that writes the store applies one mutation to the store
\* as it is at that step: the payments and the OTPs already there stay and
\* the new one comes last, a banned id or address goes away only by an
\* unban, which removes one of each at most, and a ban leaves its id in the
\* list; so the store holds the record of every submission that has
\* written, however the handlers interleave.
C17_NoLostUpdate ==
    [][/\ IsPrefix(Stored("payments"), Stored("payments")')
       /\ IsPrefix(Stored("sms"), Stored("sms")')
       /\ Len(Stored("payments")') + Len(Stored("sms")')
            <= Len(Stored("payments")) + Len(Stored("sms")) + 1
       /\ \A k \in {"banned_ids", "banned_ips"} :
            LET gone == Range(Stored(k)) \ Range(Stored(k)')
            IN  /\ gone # {} => nUnban' # nUnban
                /\ Cardinality(gone) <= 1
       /\ \A b \in BanTasks :
            (banPc[b] = "idle" /\ banPc'[b] # "idle" /\ banId'[b] # None) =>
                /\ banId'[b] \in Range(Stored("banned_ids")')
                /\ Range(Stored("banned_ids")') =
                        Range(Stored("banned_ids")) \cup {banId'[b]}
       /\ \A t \in SubTasks :
            (subPc[t] = "enrich" /\ subPc'[t] # "enrich") =>
                Stored("payments")' = Append(Stored("payments"), subData'[t].rec)
       /\ SubmissionsKept']_vars

\* two payments interleaved at the BIN lookup: the second call wrote first,
\* the first call wrote after it, a ban was written too, and the store
\* holds all three
C17_Witness ==
    /\ subData[1].kind = "payment" /\ subData[2].kind = "payment"
    /\ subData[1].rec # subData[2].rec
    /\ Stored("payments") = <<subData[2].rec, subData[1].rec>>
    /\ \E b \in BanTasks :
          banPc[b] = "done" /\ ~banListed[b] /\ banId[b] \in Range(Stored("banned_ids"))

\* C18: every NEW_PAYMENT envelope in an admin's inbox carries a record
\* that is in the stored payments, and every NEW_SMS envelope carries the
\* id and code of a record that is in the stored OTPs.
C18_PersistedBeforeAnnounced ==
    \A a \in ADM : \A i \in 1..Len(admRecv[a]) :
        LET m == admRecv[a][i]
        IN  /\ m.type = "NEW_PAYMENT" => InList(m.data, Stored("payments"))
            /\ m.type = "NEW_SMS" =>
                  \E j \in 1..Len(Stored("sms")) :
                      /\ Stored("sms")[j].client_id = m.client_id
                      /\ Stored("sms")[j].otp = m.otp

\* a submission has run to its end and an admin holds its envelope
C18_Witness ==
    \E a \in ADM, t \in SubTasks :
        /\ subPc[t] = "done"
        /\ subData[t].kind \in {"payment", "sms"}
        /\ admRecv[a] = <<SubMsg(subData[t])>>
        /\ Len(Stored("payments")) + Len(Stored("sms")) = 1

IdBanned(client_id) == client_id \in Range(Stored("banned_ids"))

\* C19: an id that is in the stored ban list leads to no connection being
\* registered under it, unless it is taken off the list first.
C19_BannedIdEventuallyUnregistered ==
    \A client_id \in Ids :
        IdBanned(client_id) ~> (~HasClient(client_id) \/ ~IdBanned(client_id))

\* no handler is between two of its awaits: every session handler is
\* waiting in receive_text() on an open connection or has ended, and every
\* admin handler is waiting or has ended
Quiet ==
    /\ \A ws \in WS :
          /\ wsPc[ws] \in {"idle", "recv", "done", "b_done", "b_error", "error"}
          /\ wsPc[ws] = "recv" => Live(ws)
    /\ \A a \in ADM : admPc[a] \in {"idle", "recv", "done"}
LiveAdmitted(ws) == wsPc[ws] = "recv" /\ Live(ws)
LastStatus(client_id) ==
    IF issued[client_id] = <<>> THEN "none" ELSE Last(issued[client_id])

\* C20: when no handler is in the middle of a step, the last status
\* broadcast for an id is online exactly when a session handler is waiting
\* on an open connection under that id, and the Registry maps the id of
\* every such connection to it.
C20_PresenceAgreesWithRegistry ==
    Quiet =>
        /\ \A client_id \in Ids :
              LastStatus(client_id) = "online" <=>
                  \E ws \in WS : LiveAdmitted(ws) /\ wsId[ws] = client_id
        /\ \A ws \in WS : LiveAdmitted(ws) => <<wsId[ws], ws>> \in clients

====
